---- MODULE Spec2Model ----
(***************************************************************************)
(* Model of src/utils/image_utils.py: the headless-renderer entry points   *)
(* take_screenshot_html / take_screenshot with their temp files and the    *)
(* external process, and the image helpers get_image, change_orientation,  *)
(* resize_image, pad_image_blur and apply_image_enhancement.               *)
(***************************************************************************)
EXTENDS Integers, Sequences, FiniteSets, TLC

(* ------------------------------ bounds -------------------------------- *)
\* number of concurrent invocations of the two screenshot entry points
NumInv == 2
\* number of distinct ".png" names the temp-name generator can produce
MaxFiles == 2

\* largest side of a bitmap given to change_orientation
MaxSide == 2
\* number of successive change_orientation calls on one bitmap
MaxCalls == 2
\* largest width or height of a source bitmap or target given to resize_image
MaxDim == 16

\* largest width or height of a source bitmap or target box given to
\* pad_image_blur
MaxPad == 8
\* largest value of a colour or alpha channel of the pixel given to
\* apply_image_enhancement
MaxChan == 1

Invs == 1..NumInv
Names == 1..MaxFiles

VARIABLES
    pc,              \* position of each invocation in the code
    kind,            \* entry point called: "html" | "target" ("none" before the call)
    pngfs,           \* content of each ".png" temp path on disk
    pngowner,        \* invocation whose code or process created the file now at the path
    htmlfs,          \* content of the ".html" temp file of each invocation
    html_file_path,  \* take_screenshot_html: local html_file_path (FALSE: unbound)
    html_image,      \* take_screenshot_html: local image
    img_file_path,   \* take_screenshot: local img_file_path (0: None)
    image,           \* take_screenshot: local image
    returncode,      \* take_screenshot: result.returncode (-1: no result yet)
    checks,          \* take_screenshot: outcome of each checkpoint evaluated so far
    spawns,          \* number of subprocess.run calls made by the invocation
    raised,          \* an exception escaped the entry point to its caller
    ret,             \* value returned to the caller ("unset" until it returns)
    untouched,       \* the invocation's process exited with code 0 and left its output path alone
    o_hist,          \* change_orientation: the bitmap given, then each call's result
    o_calls,         \* change_orientation: arguments and angle of each call made
    r_pc,            \* resize_image: "start" | "done" ("off": not in use)
    r_size,          \* resize_image: image.size
    r_desired,       \* resize_image: desired_size
    r_keep,          \* resize_image: "keep-width" in image_settings
    r_crop,          \* resize_image: the box given to image.crop
    r_out,           \* resize_image: size of the bitmap returned
    f_pc,            \* get_image: "start" | "response" | "done" ("off": not in use)
    f_status,        \* get_image: response.status_code
    f_body,          \* get_image: response.content, "image" or "garbage"
    f_img,           \* get_image: local img / value returned
    f_raised,        \* get_image: an exception escaped to the caller
    p_pc,            \* pad_image_blur: "start" | "done" ("off": not in use)
    p_size,          \* pad_image_blur: img.size of the bitmap given
    p_dims,          \* pad_image_blur: dimensions
    p_bkg,           \* pad_image_blur: bkg.size (<<0, 0>>: unbound)
    p_img_size,      \* pad_image_blur: img_size, the size ImageOps.contain asked for
    p_paste,         \* pad_image_blur: the offset given to bkg.paste
    p_out,           \* pad_image_blur: size of the bitmap returned (<<0, 0>>: none)
    p_raised,        \* pad_image_blur: an exception escaped to the caller
    e_pc,            \* apply_image_enhancement: "start" | "done" ("off": not in use)
    e_in,            \* apply_image_enhancement: the bitmap given
    e_settings,      \* apply_image_enhancement: image_settings
    e_log,           \* apply_image_enhancement: the enhance calls made, in order
    e_img            \* apply_image_enhancement: local img / value returned

svars == <<pc, kind, pngfs, pngowner, htmlfs, html_file_path, html_image,
           img_file_path, image, returncode, checks, spawns, raised, ret,
           untouched>>

ovars == <<o_hist, o_calls>>
rvars == <<r_pc, r_size, r_desired, r_keep, r_crop, r_out>>
fvars == <<f_pc, f_status, f_body, f_img, f_raised>>
pvars == <<p_pc, p_size, p_dims, p_bkg, p_img_size, p_paste, p_out, p_raised>>
evars == <<e_pc, e_in, e_settings, e_log, e_img>>

vars == <<svars, ovars, rvars, fvars, pvars, evars>>

(* --------------------- take_screenshot_html ---------------------------- *)

\* the state before any entry point has been called: no temp file on disk
ShotInit ==
    /\ pc = [i \in Invs |-> "idle"]
    /\ kind = [i \in Invs |-> "none"]
    /\ pngfs = [p \in Names |-> "absent"]
    /\ pngowner = [p \in Names |-> 0]
    /\ htmlfs = [i \in Invs |-> "absent"]
    /\ html_file_path = [i \in Invs |-> FALSE]
    /\ html_image = [i \in Invs |-> "None"]
    /\ img_file_path = [i \in Invs |-> 0]
    /\ image = [i \in Invs |-> "None"]
    /\ returncode = [i \in Invs |-> -1]
    /\ checks = [i \in Invs |-> <<>>]
    /\ spawns = [i \in Invs |-> 0]
    /\ raised = [i \in Invs |-> FALSE]
    /\ ret = [i \in Invs |-> "unset"]
    /\ untouched = [i \in Invs |-> FALSE]

\* the caller enters take_screenshot_html (k = "html") or take_screenshot
\* (k = "target"); both start with image = None
Call(i, k) ==
    /\ pc[i] = "idle"
    /\ UNCHANGED <<ovars, rvars, fvars, pvars, evars>>
    /\ kind' = [kind EXCEPT ![i] = k]
    /\ pc' = [pc EXCEPT ![i] = IF k = "html" THEN "th_create" ELSE "ts_create"]
    /\ UNCHANGED <<pngfs, pngowner, htmlfs, html_file_path, html_image,
                   img_file_path, image, returncode, checks, spawns, raised, ret,
                   untouched>>

\* tempfile.NamedTemporaryFile(suffix=".html", delete=False): creates an empty
\* file under a name that is not on disk (O_EXCL), or raises.  The ".html"
\* names are kept per invocation: nothing but its creator removes such a file,
\* so a live one is never handed out again.
ThCreate(i) ==
    /\ pc[i] = "th_create"
    /\ UNCHANGED <<ovars, rvars, fvars, pvars, evars>>
    /\ \/ /\ htmlfs' = [htmlfs EXCEPT ![i] = "empty"]
          /\ pc' = [pc EXCEPT ![i] = "th_write"]
       \/ /\ pc' = [pc EXCEPT ![i] = "th_except"]
          /\ UNCHANGED htmlfs
    /\ UNCHANGED <<untouched, kind, pngfs, pngowner, html_file_path, html_image,
                   img_file_path, image, returncode, checks, spawns, raised, ret>>

\* ThWrite with take_screenshot called inside the with block, before the
\* written bytes have been flushed and the file closed
ThWriteUnflushed(i) ==
    /\ pc[i] = "th_write"
    /\ UNCHANGED <<ovars, rvars, fvars, pvars, evars>>
    /\ \/ /\ htmlfs' = [htmlfs EXCEPT ![i] = "partial"]
          /\ html_file_path' = [html_file_path EXCEPT ![i] = TRUE]
          /\ pc' = [pc EXCEPT ![i] = "ts_create"]
       \/ /\ \E c \in {"empty", "partial"} : htmlfs' = [htmlfs EXCEPT ![i] = c]
          /\ pc' = [pc EXCEPT ![i] = "th_except"]
          /\ UNCHANGED html_file_path
    /\ UNCHANGED <<untouched, kind, pngfs, pngowner, html_image, img_file_path, image,
                   returncode, checks, spawns, raised, ret>>

\* html_file.write(html_str.encode("utf-8")); html_file_path = html_file.name;
\* the with block ends (the file is closed) and take_screenshot is called.
\* encode may raise before anything is written and write may raise part-way:
\* the with block closes the file and the exception goes to the handler with
\* html_file_path still unbound
ThWrite(i) ==
    /\ pc[i] = "th_write"
    /\ UNCHANGED <<ovars, rvars, fvars, pvars, evars>>
    /\ \/ /\ htmlfs' = [htmlfs EXCEPT ![i] = "html"]
          /\ html_file_path' = [html_file_path EXCEPT ![i] = TRUE]
          /\ pc' = [pc EXCEPT ![i] = "ts_create"]
       \/ /\ \E c \in {"empty", "partial"} : htmlfs' = [htmlfs EXCEPT ![i] = c]
          /\ pc' = [pc EXCEPT ![i] = "th_except"]
          /\ UNCHANGED html_file_path
    /\ UNCHANGED <<untouched, kind, pngfs, pngowner, html_image, img_file_path, image,
                   returncode, checks, spawns, raised, ret>>

\* os.remove(html_file_path) (raises when the file is not there), return image
ThRemove(i) ==
    /\ pc[i] = "th_remove"
    /\ UNCHANGED <<ovars, rvars, fvars, pvars, evars>>
    /\ IF htmlfs[i] = "absent"
       THEN /\ pc' = [pc EXCEPT ![i] = "th_except"]
            /\ UNCHANGED <<htmlfs, ret>>
       ELSE /\ htmlfs' = [htmlfs EXCEPT ![i] = "absent"]
            /\ ret' = [ret EXCEPT ![i] = html_image[i]]
            /\ pc' = [pc EXCEPT ![i] = "done"]
    /\ UNCHANGED <<untouched, kind, pngfs, pngowner, html_file_path, html_image,
                   img_file_path, image, returncode, checks, spawns, raised>>

\* except Exception as e: logger.error(...); return image
ThExcept(i) ==
    /\ pc[i] = "th_except"
    /\ UNCHANGED <<ovars, rvars, fvars, pvars, evars>>
    /\ ret' = [ret EXCEPT ![i] = html_image[i]]
    /\ pc' = [pc EXCEPT ![i] = "done"]
    /\ UNCHANGED <<untouched, kind, pngfs, pngowner, htmlfs, html_file_path, html_image,
                   img_file_path, image, returncode, checks, spawns, raised>>

(* ------------------------- take_screenshot ----------------------------- *)

\* a return statement of take_screenshot handing v to whoever called it:
\* the outside caller (kind "target") or line 102 of take_screenshot_html.
\* The frame of take_screenshot ends here and its locals with it.
TsReturnTo(i, v) ==
    /\ img_file_path' = [img_file_path EXCEPT ![i] = 0]
    /\ image' = [image EXCEPT ![i] = "None"]
    /\ returncode' = [returncode EXCEPT ![i] = -1]
    /\ IF kind[i] = "target"
       THEN /\ ret' = [ret EXCEPT ![i] = v]
            /\ pc' = [pc EXCEPT ![i] = "done"]
            /\ UNCHANGED html_image
       ELSE /\ html_image' = [html_image EXCEPT ![i] = v]
            /\ pc' = [pc EXCEPT ![i] = "th_remove"]
            /\ UNCHANGED ret

\* a step of take_screenshot that goes on to position l with locals im, rc
TsGoto(i, l, im, rc) ==
    /\ pc' = [pc EXCEPT ![i] = l]
    /\ image' = [image EXCEPT ![i] = im]
    /\ returncode' = [returncode EXCEPT ![i] = rc]
    /\ UNCHANGED <<img_file_path, ret, html_image>>

\* with tempfile.NamedTemporaryFile(suffix=".png", delete=False) as img_file:
\*     img_file_path = img_file.name
\* the file is created empty under a name not on disk (O_EXCL) and closed, or
\* the creation raises
TsCreate(i) ==
    /\ pc[i] = "ts_create"
    /\ UNCHANGED <<ovars, rvars, fvars, pvars, evars>>
    /\ \/ /\ \E p \in Names :
                /\ pngfs[p] = "absent"
                /\ pngfs' = [pngfs EXCEPT ![p] = "empty"]
                /\ pngowner' = [pngowner EXCEPT ![p] = i]
                /\ img_file_path' = [img_file_path EXCEPT ![i] = p]
          /\ pc' = [pc EXCEPT ![i] = "ts_spawn"]
       \/ /\ pc' = [pc EXCEPT ![i] = "ts_except"]
          /\ UNCHANGED <<pngfs, pngowner, img_file_path>>
    /\ UNCHANGED <<untouched, kind, htmlfs, html_file_path, html_image, image,
                   returncode, checks, spawns, raised, ret>>

\* subprocess.run(command, ...) starts the external process, or raises
\* (the executable cannot be started)
TsSpawn(i) ==
    /\ pc[i] = "ts_spawn"
    /\ UNCHANGED <<ovars, rvars, fvars, pvars, evars>>
    /\ spawns' = [spawns EXCEPT ![i] = @ + 1]
    /\ \/ pc' = [pc EXCEPT ![i] = "ts_running"]
       \/ pc' = [pc EXCEPT ![i] = "ts_except"]
    /\ UNCHANGED <<untouched, kind, pngfs, pngowner, htmlfs, html_file_path, html_image,
                   img_file_path, image, returncode, checks, raised, ret>>

\* what the external process may have done to the path given in --screenshot=
Effects == {"none", "image", "garbage", "remove"}

\* ProcExit with a retry: a non-zero exit code sends the invocation back to
\* subprocess.run instead of returning None
ProcExitRetry(i, rc, eff) ==
    /\ pc[i] = "ts_running"
    /\ UNCHANGED <<ovars, rvars, fvars, pvars, evars>>
    /\ checks' = [checks EXCEPT ![i] = Append(@, rc = 0)]
    /\ untouched' = [untouched EXCEPT ![i] = (rc = 0 /\ eff = "none")]
    /\ TsGoto(i, IF rc # 0 THEN "ts_spawn" ELSE "ts_exists", image[i], rc)
    /\ UNCHANGED <<kind, pngfs, pngowner, htmlfs, html_file_path, spawns, raised>>

\* the external process ends and subprocess.run returns its exit code; the
\* process left its output path alone, wrote it, or removed it.
\* if result.returncode != 0: ... return None
ProcExit(i, rc, eff) ==
    /\ pc[i] = "ts_running"
    /\ UNCHANGED <<ovars, rvars, fvars, pvars, evars>>
    /\ IF eff = "none"
       THEN UNCHANGED <<pngfs, pngowner>>
       ELSE IF eff = "remove"
       THEN /\ pngfs' = [pngfs EXCEPT ![img_file_path[i]] = "absent"]
            /\ pngowner' = [pngowner EXCEPT ![img_file_path[i]] = 0]
       ELSE /\ pngfs' = [pngfs EXCEPT ![img_file_path[i]] = eff]
            /\ pngowner' = [pngowner EXCEPT ![img_file_path[i]] =
                               IF pngfs[img_file_path[i]] = "absent" THEN i ELSE @]
    /\ checks' = [checks EXCEPT ![i] = Append(@, rc = 0)]
    /\ untouched' = [untouched EXCEPT ![i] = (rc = 0 /\ eff = "none")]
    /\ IF rc # 0
       THEN TsReturnTo(i, "None")
       ELSE TsGoto(i, "ts_exists", image[i], rc)
    /\ UNCHANGED <<kind, htmlfs, html_file_path, spawns, raised>>

\* if not os.path.exists(img_file_path): ... return None
TsCheckExists(i) ==
    /\ pc[i] = "ts_exists"
    /\ UNCHANGED <<ovars, rvars, fvars, pvars, evars>>
    /\ checks' = [checks EXCEPT ![i] = Append(@, pngfs[img_file_path[i]] # "absent")]
    /\ IF pngfs[img_file_path[i]] = "absent"
       THEN TsReturnTo(i, "None")
       ELSE TsGoto(i, "ts_size", image[i], returncode[i])
    /\ UNCHANGED <<untouched, kind, pngfs, pngowner, htmlfs, html_file_path, spawns, raised>>

\* file_size = os.path.getsize(img_file_path) (raises when the file is gone)
\* if file_size == 0: ... return None
TsGetSize(i) ==
    /\ pc[i] = "ts_size"
    /\ UNCHANGED <<ovars, rvars, fvars, pvars, evars>>
    /\ IF pngfs[img_file_path[i]] = "absent"
       THEN /\ TsGoto(i, "ts_except", image[i], returncode[i])
            /\ UNCHANGED checks
       ELSE /\ checks' = [checks EXCEPT ![i] = Append(@, pngfs[img_file_path[i]] # "empty")]
            /\ IF pngfs[img_file_path[i]] = "empty"
               THEN TsReturnTo(i, "None")
               ELSE TsGoto(i, "ts_open", image[i], returncode[i])
    /\ UNCHANGED <<untouched, kind, pngfs, pngowner, htmlfs, html_file_path, spawns, raised>>

\* try: with Image.open(img_file_path) as img: image = img.copy()
\* except Exception as img_error: log, with open(img_file_path, 'rb') as f: ...
\*     return None
\* (when the file is gone both opens raise, and the second reaches the outer
\* handler)
TsOpen(i) ==
    /\ pc[i] = "ts_open"
    /\ UNCHANGED <<ovars, rvars, fvars, pvars, evars>>
    /\ checks' = [checks EXCEPT ![i] = Append(@, pngfs[img_file_path[i]] = "image")]
    /\ IF pngfs[img_file_path[i]] = "image"
       THEN TsGoto(i, "ts_remove", "Bitmap", returncode[i])
       ELSE IF pngfs[img_file_path[i]] = "absent"
       THEN TsGoto(i, "ts_except", image[i], returncode[i])
       ELSE TsReturnTo(i, "None")
    /\ UNCHANGED <<untouched, kind, pngfs, pngowner, htmlfs, html_file_path, spawns, raised>>

\* os.remove(img_file_path) on the success path (raises when the file is
\* gone), then return image
TsRemove(i) ==
    /\ pc[i] = "ts_remove"
    /\ UNCHANGED <<ovars, rvars, fvars, pvars, evars>>
    /\ IF pngfs[img_file_path[i]] = "absent"
       THEN /\ TsGoto(i, "ts_except", image[i], returncode[i])
            /\ UNCHANGED <<pngfs, pngowner>>
       ELSE /\ pngfs' = [pngfs EXCEPT ![img_file_path[i]] = "absent"]
            /\ pngowner' = [pngowner EXCEPT ![img_file_path[i]] = 0]
            /\ TsReturnTo(i, image[i])
    /\ UNCHANGED <<untouched, kind, htmlfs, html_file_path, checks, spawns, raised>>

\* TsExcept without the handler: the exception leaves take_screenshot (and
\* the entry point) for the caller
TsExceptPropagates(i) ==
    /\ pc[i] = "ts_except"
    /\ UNCHANGED <<ovars, rvars, fvars, pvars, evars>>
    /\ raised' = [raised EXCEPT ![i] = TRUE]
    /\ pc' = [pc EXCEPT ![i] = "done"]
    /\ UNCHANGED <<untouched, kind, pngfs, pngowner, htmlfs, html_file_path, html_image,
                   img_file_path, image, returncode, checks, spawns, ret>>

\* TsExcept without the cleanup: the handler logs and returns image, and
\* leaves the output file where it is
TsExceptNoCleanup(i) ==
    /\ pc[i] = "ts_except"
    /\ UNCHANGED <<ovars, rvars, fvars, pvars, evars>>
    /\ UNCHANGED <<pngfs, pngowner>>
    /\ TsReturnTo(i, image[i])
    /\ UNCHANGED <<untouched, kind, htmlfs, html_file_path, checks, spawns, raised>>

\* except Exception as e: log, then
\* if img_file_path and os.path.exists(img_file_path): try os.remove / except pass
\* and return image
TsExcept(i) ==
    /\ pc[i] = "ts_except"
    /\ UNCHANGED <<ovars, rvars, fvars, pvars, evars>>
    /\ IF img_file_path[i] # 0 /\ pngfs[img_file_path[i]] # "absent"
       THEN /\ pngfs' = [pngfs EXCEPT ![img_file_path[i]] = "absent"]
            /\ pngowner' = [pngowner EXCEPT ![img_file_path[i]] = 0]
       ELSE UNCHANGED <<pngfs, pngowner>>
    /\ TsReturnTo(i, image[i])
    /\ UNCHANGED <<untouched, kind, htmlfs, html_file_path, checks, spawns, raised>>

ShotNext ==
    \E i \in Invs :
        \/ \E k \in {"html", "target"} : Call(i, k)
        \/ ThCreate(i)
        \/ ThWrite(i)
        \/ ThRemove(i)
        \/ ThExcept(i)
        \/ TsCreate(i)
        \/ TsSpawn(i)
        \/ \E rc \in {0, 1} : \E eff \in Effects : ProcExit(i, rc, eff)
        \/ TsCheckExists(i)
        \/ TsGetSize(i)
        \/ TsOpen(i)
        \/ TsRemove(i)
        \/ TsExcept(i)

(* -------------------- name reuse among three callers ------------------- *)

\* the callers of take_screenshot when one more of them than Invs runs at the
\* same time: a name has to change hands twice before a caller loses a file
\* it has just created to the exception handler of another
Callers == 1..(NumInv + 1)

ReuseInit ==
    /\ pc = [i \in Callers |-> "idle"]
    /\ kind = [i \in Callers |-> "none"]
    /\ pngfs = [p \in Names |-> "absent"]
    /\ pngowner = [p \in Names |-> 0]
    /\ htmlfs = [i \in Callers |-> "absent"]
    /\ html_file_path = [i \in Callers |-> FALSE]
    /\ html_image = [i \in Callers |-> "None"]
    /\ img_file_path = [i \in Callers |-> 0]
    /\ image = [i \in Callers |-> "None"]
    /\ returncode = [i \in Callers |-> -1]
    /\ checks = [i \in Callers |-> <<>>]
    /\ spawns = [i \in Callers |-> 0]
    /\ raised = [i \in Callers |-> FALSE]
    /\ ret = [i \in Callers |-> "unset"]
    /\ untouched = [i \in Callers |-> FALSE]

\* concurrent calls of take_screenshot alone
ReuseNext ==
    \E i \in Callers :
        \/ Call(i, "target")
        \/ TsCreate(i)
        \/ TsSpawn(i)
        \/ \E rc \in {0, 1} : \E eff \in Effects : ProcExit(i, rc, eff)
        \/ TsCheckExists(i)
        \/ TsGetSize(i)
        \/ TsOpen(i)
        \/ TsRemove(i)
        \/ TsExcept(i)

(* ------------------------ change_orientation --------------------------- *)

Colours == {0, 1}
Orientations == {"horizontal", "vertical"}

\* the pixel coordinates of a w x h bitmap
Pixels(w, h) == (0..(w - 1)) \X (0..(h - 1))

\* every bitmap of at most MaxSide x MaxSide pixels
Bitmaps ==
    UNION { { [w |-> w, h |-> h, px |-> f] : f \in [Pixels(w, h) -> Colours] } :
            <<w, h>> \in (1..MaxSide) \X (1..MaxSide) }

\* a quarter turn counter-clockwise with the canvas expanded (expand=1): the
\* top-right pixel of b becomes the top-left pixel of the result
Rot90(b) ==
    [w |-> b.h, h |-> b.w,
     px |-> [c \in Pixels(b.h, b.w) |-> b.px[<<b.w - 1 - c[2], c[1]>>]]]

\* image.rotate(angle, expand=1) for a multiple of 90 degrees
RECURSIVE Rotate(_, _)
Rotate(b, angle) == IF angle = 0 THEN b ELSE Rot90(Rotate(b, angle - 90))

\* Angle with the inversion replacing the base angle instead of adding to it
AngleInvertedFixed(orientation, inverted) ==
    LET angle == IF orientation = "horizontal" THEN 0 ELSE 90
    IN  IF inverted THEN 180 ELSE angle

\* Angle with the vertical base angle turned the other way
AngleVerticalClockwise(orientation, inverted) ==
    LET angle == IF orientation = "horizontal" THEN 0 ELSE 270
    IN  IF inverted THEN (angle + 180) % 360 ELSE angle

\* the angle change_orientation computes
Angle(orientation, inverted) ==
    LET angle == IF orientation = "horizontal" THEN 0 ELSE 90
    IN  IF inverted THEN (angle + 180) % 360 ELSE angle

\* the 1 x 1 bitmap whose pixel is 0
Blank == [w |-> 1, h |-> 1, px |-> [c \in Pixels(1, 1) |-> 0]]

OrientOff == o_hist = <<Blank>> /\ o_calls = <<>>

OrientInit == o_hist \in { <<b>> : b \in Bitmaps } /\ o_calls = <<>>

\* one call of change_orientation on the bitmap the previous call returned
ChangeOrientation(orientation, inverted) ==
    /\ Len(o_calls) < MaxCalls
    /\ UNCHANGED <<svars, rvars, fvars, pvars, evars>>
    /\ o_calls' = Append(o_calls, [orientation |-> orientation,
                                   inverted |-> inverted,
                                   angle |-> Angle(orientation, inverted)])
    /\ o_hist' = Append(o_hist, Rotate(o_hist[Len(o_hist)],
                                       Angle(orientation, inverted)))

OrientNext ==
    \E orientation \in Orientations : \E inverted \in BOOLEAN :
        ChangeOrientation(orientation, inverted)

(* ---------------------------- resize_image ----------------------------- *)

RECURSIVE Pow2(_)
Pow2(n) == IF n = 0 THEN 1 ELSE 2 * Pow2(n - 1)

\* 2^k mod m
RECURSIVE PowMod(_, _)
PowMod(k, m) == IF k = 0 THEN 1 % m ELSE (2 * PowMod(k - 1, m)) % m

RECURSIVE LogUp(_, _, _)
LogUp(a, b, q) == IF b * Pow2(q + 1) <= a THEN LogUp(a, b, q + 1) ELSE q

RECURSIVE LogDown(_, _, _)
LogDown(a, b, s) == IF a * Pow2(s) < b THEN LogDown(a, b, s + 1) ELSE s

\* the binary exponent q of a / b: 2^q <= a/b < 2^(q+1)
Log2Floor(a, b) == IF a >= b THEN LogUp(a, b, 0) ELSE 0 - LogDown(a, b, 1)

\* a * 2^e > b for an exponent e of either sign
GtScaled(a, e, b) == IF e >= 0 THEN a * Pow2(e) > b ELSE a > b * Pow2(0 - e)

\* The rounding error of the double w / h (the value of desired_width /
\* desired_height) as the integer d with  double = w/h + d / (h * 2^(52-q)),
\* q = Log2Floor(w, h): the 53-bit quotient is rounded to nearest, ties to even
RoundErr(w, h) ==
    LET k == 52 - Log2Floor(w, h)
        r == (w * PowMod(k, h)) % h
        odd == ((w * PowMod(k, 2 * h)) % (2 * h)) >= h
    IN  IF 2 * r < h THEN 0 - r
        ELSE IF 2 * r > h THEN h - r
        ELSE IF odd THEN h - r ELSE 0 - r

\* the exponent by which an error is scaled against half the spacing of the
\* doubles just below the integer n
HalfUlpExp(w, h, n) ==
    LET q == Log2Floor(w, h)
        j == Log2Floor(n, 1)
    IN  q + 1 - j + (IF n = Pow2(j) THEN 1 ELSE 0)

\* int(x * (w / h)) in double arithmetic: the exact floor, except that an
\* exact integer product is truncated to one less when w / h was rounded down
\* by more than half the spacing of the doubles below the product
IntMulRatio(x, w, h) ==
    LET n == (x * w) \div h
        d == RoundErr(w, h)
    IN  IF (x * w) % h # 0 \/ d >= 0 THEN n
        ELSE IF GtScaled(x * (0 - d), HalfUlpExp(w, h, n), h) THEN n - 1 ELSE n

\* int(x / (w / h)) in double arithmetic: the exact floor, except that an
\* exact integer quotient is truncated to one less when w / h was rounded up
\* by more than half the spacing of the doubles below the quotient
IntDivRatio(x, w, h) ==
    LET n == (x * h) \div w
        d == RoundErr(w, h)
    IN  IF (x * h) % w # 0 \/ d <= 0 THEN n
        ELSE IF GtScaled(n * d, HalfUlpExp(w, h, n), w) THEN n - 1 ELSE n

\* img_ratio > desired_ratio: two correctly rounded quotients of integers of
\* this size compare as the exact fractions do
RatioGreater(img_width, img_height, desired_width, desired_height) ==
    img_width * desired_height > img_height * desired_width

\* ResizeCrop with the vertical crop always centred, whatever keep_width is
ResizeCropCentred(img_width, img_height, desired_width, desired_height, keep_width) ==
    IF RatioGreater(img_width, img_height, desired_width, desired_height)
    THEN LET new_width == IntMulRatio(img_height, desired_width, desired_height)
         IN  [x_offset |-> IF ~keep_width THEN (img_width - new_width) \div 2 ELSE 0,
              y_offset |-> 0,
              new_width |-> new_width,
              new_height |-> img_height]
    ELSE LET new_height == IntDivRatio(img_width, desired_width, desired_height)
         IN  [x_offset |-> 0,
              y_offset |-> (img_height - new_height) \div 2,
              new_width |-> img_width,
              new_height |-> new_height]

\* ResizeCrop with the two ratio operations exchanged: the source is divided
\* by the ratio where it is multiplied, and multiplied where it is divided
ResizeCropSwapped(img_width, img_height, desired_width, desired_height, keep_width) ==
    IF RatioGreater(img_width, img_height, desired_width, desired_height)
    THEN LET new_width == IntDivRatio(img_height, desired_width, desired_height)
         IN  [x_offset |-> IF ~keep_width THEN (img_width - new_width) \div 2 ELSE 0,
              y_offset |-> 0,
              new_width |-> new_width,
              new_height |-> img_height]
    ELSE LET new_height == IntMulRatio(img_width, desired_width, desired_height)
         IN  [x_offset |-> 0,
              y_offset |-> IF ~keep_width THEN (img_height - new_height) \div 2 ELSE 0,
              new_width |-> img_width,
              new_height |-> new_height]

\* Step 1 of resize_image: the crop offsets and dimensions
ResizeCrop(img_width, img_height, desired_width, desired_height, keep_width) ==
    IF RatioGreater(img_width, img_height, desired_width, desired_height)
    THEN LET new_width == IntMulRatio(img_height, desired_width, desired_height)
         IN  [x_offset |-> IF ~keep_width THEN (img_width - new_width) \div 2 ELSE 0,
              y_offset |-> 0,
              new_width |-> new_width,
              new_height |-> img_height]
    ELSE LET new_height == IntDivRatio(img_width, desired_width, desired_height)
         IN  [x_offset |-> 0,
              y_offset |-> IF ~keep_width THEN (img_height - new_height) \div 2 ELSE 0,
              new_width |-> img_width,
              new_height |-> new_height]

Dims == 1..MaxDim

\* the sizes resize_image is called with: every small size, and a full-HD
\* source with an 800 x 480 panel as the target
Sizes == (Dims \X Dims) \cup {<<1920, 1080>>, <<800, 480>>}

ResizeOff ==
    /\ r_pc = "off"
    /\ r_size = <<1, 1>>
    /\ r_desired = <<1, 1>>
    /\ r_keep = FALSE
    /\ r_crop = <<0, 0, 0, 0>>
    /\ r_out = <<0, 0>>

ResizeInit ==
    /\ r_pc = "start"
    /\ r_size \in Sizes
    /\ r_desired \in Sizes
    /\ r_keep \in BOOLEAN
    /\ r_crop = <<0, 0, 0, 0>>
    /\ r_out = <<0, 0>>

\* resize_image: the crop box is computed, the image cropped to it and the
\* crop resized to the desired size
ResizeImage ==
    /\ r_pc = "start"
    /\ UNCHANGED <<svars, ovars, fvars, pvars, evars>>
    /\ LET c == ResizeCrop(r_size[1], r_size[2], r_desired[1], r_desired[2], r_keep)
       IN  r_crop' = <<c.x_offset, c.y_offset,
                       c.x_offset + c.new_width, c.y_offset + c.new_height>>
    /\ r_out' = r_desired
    /\ r_pc' = "done"
    /\ UNCHANGED <<r_size, r_desired, r_keep>>

ResizeNext == ResizeImage

(* ------------------------------ get_image ------------------------------ *)

Statuses == 100..599

FetchOff ==
    /\ f_pc = "off"
    /\ f_status = 0
    /\ f_body = "none"
    /\ f_img = "None"
    /\ f_raised = FALSE

FetchInit ==
    /\ f_pc = "start"
    /\ f_status = 0
    /\ f_body = "none"
    /\ f_img = "None"
    /\ f_raised = FALSE

\* response = requests.get(image_url); img = None
\* the request yields a response, or raises (no connection), which nothing
\* in get_image catches
RequestsGet ==
    /\ f_pc = "start"
    /\ UNCHANGED <<svars, ovars, rvars, pvars, evars>>
    /\ \/ /\ \E st \in Statuses : f_status' = st
          /\ \E b \in {"image", "garbage"} : f_body' = b
          /\ f_pc' = "response"
          /\ UNCHANGED f_raised
       \/ /\ f_raised' = TRUE
          /\ f_pc' = "done"
          /\ UNCHANGED <<f_status, f_body>>
    /\ UNCHANGED f_img

\* if 200 <= response.status_code < 300 or response.status_code == 304:
\*     img = Image.open(BytesIO(response.content))   (raises on a body that
\*     is no image, which nothing in get_image catches)
\* else: logger.error(...)
\* return img
GetImageDecode ==
    /\ f_pc = "response"
    /\ UNCHANGED <<svars, ovars, rvars, pvars, evars>>
    /\ IF (200 <= f_status /\ f_status < 300) \/ f_status = 304
       THEN IF f_body = "image"
            THEN f_img' = "Bitmap" /\ UNCHANGED f_raised
            ELSE f_raised' = TRUE /\ UNCHANGED f_img
       ELSE UNCHANGED <<f_img, f_raised>>
    /\ f_pc' = "done"
    /\ UNCHANGED <<f_status, f_body>>

FetchNext == RequestsGet \/ GetImageDecode

(* ---------------------------- pad_image_blur --------------------------- *)

\* round(a / b * x) in double arithmetic, as ImageOps.contain computes the
\* scaled side: the exact quotient rounded to the nearest integer; when it
\* lies exactly half way the double product decides, which is above or below
\* the half when a / b was rounded by more than half the spacing of the
\* doubles there, and the half itself (rounded to the even integer) otherwise
RoundMulRatio(x, a, b) ==
    LET n == (x * a) \div b
        rem == (x * a) % b
        d == RoundErr(a, b)
        even == IF n % 2 = 0 THEN n ELSE n + 1
        e == Log2Floor(a, b) + 1 - Log2Floor(2 * n + 1, 2)
    IN  IF 2 * rem < b THEN n
        ELSE IF 2 * rem > b THEN n + 1
        ELSE IF d = 0 THEN even
        ELSE IF d > 0 THEN (IF GtScaled(x * d, e, b) THEN n + 1 ELSE even)
        ELSE IF GtScaled(x * (0 - d), e + (IF n = 0 THEN 1 ELSE 0), b) THEN n
        ELSE even

\* ImageOps.contain(img, dimensions): the size it asks image.resize for. The
\* side that does not fill the box is the source's, scaled and rounded
ContainSize(width, height, size) ==
    IF width * size[2] = height * size[1] THEN size
    ELSE IF width * size[2] > height * size[1]
    THEN <<size[1], RoundMulRatio(size[1], height, width)>>
    ELSE <<RoundMulRatio(size[2], width, height), size[2]>>

PadDims == 1..MaxPad

PadOff ==
    /\ p_pc = "off"
    /\ p_size = <<1, 1>>
    /\ p_dims = <<1, 1>>
    /\ p_bkg = <<0, 0>>
    /\ p_img_size = <<0, 0>>
    /\ p_paste = <<0, 0>>
    /\ p_out = <<0, 0>>
    /\ p_raised = FALSE

PadInit ==
    /\ p_pc = "start"
    /\ p_size \in PadDims \X PadDims
    /\ p_dims \in PadDims \X PadDims
    /\ p_bkg = <<0, 0>>
    /\ p_img_size = <<0, 0>>
    /\ p_paste = <<0, 0>>
    /\ p_out = <<0, 0>>
    /\ p_raised = FALSE

\* pad_image_blur: bkg is the source fitted to the box (its size is the box)
\* and blurred; ImageOps.contain resizes the source to ContainSize, and
\* image.resize raises ValueError on a size with a side below 1, which
\* nothing in pad_image_blur catches; otherwise the contained image is pasted
\* on bkg at the centring offset and bkg is returned
PadImageBlur ==
    /\ p_pc = "start"
    /\ UNCHANGED <<svars, ovars, rvars, fvars, evars>>
    /\ p_bkg' = p_dims
    /\ LET img_size == ContainSize(p_size[1], p_size[2], p_dims)
       IN  /\ p_img_size' = img_size
           /\ IF img_size[1] < 1 \/ img_size[2] < 1
              THEN /\ p_raised' = TRUE
                   /\ UNCHANGED <<p_paste, p_out>>
              ELSE /\ p_paste' = <<(p_dims[1] - img_size[1]) \div 2,
                                   (p_dims[2] - img_size[2]) \div 2>>
                   /\ p_out' = p_dims
                   /\ UNCHANGED p_raised
    /\ p_pc' = "done"
    /\ UNCHANGED <<p_size, p_dims>>

PadNext == PadImageBlur

(* ----------------------- apply_image_enhancement ----------------------- *)

Modes == {"RGB", "L", "RGBA"}
Chan == 0..MaxChan

\* the number of channels of a mode
Bands(mode) == IF mode = "L" THEN 1 ELSE IF mode = "RGB" THEN 3 ELSE 4

\* the one-pixel bitmaps of each mode; ops lists the enhancements that have
\* changed the pixel
Pictures ==
    UNION { { [mode |-> m, px |-> t, ops |-> <<>>] : t \in [1..Bands(m) -> Chan] }
            : m \in Modes }

\* img.convert("RGB"): grey is spread over three channels, alpha is dropped
ConvertRGB(img) ==
    [mode |-> "RGB",
     px |-> IF img.mode = "L" THEN <<img.px[1], img.px[1], img.px[1]>>
            ELSE <<img.px[1], img.px[2], img.px[3]>>,
     ops |-> img.ops]

\* ImageEnhance.<stage>(img).enhance(factor): the blend of the stage's
\* degenerate image with img, which for the factor 1.0 is a copy of img
Enhance(stage, factor, img) ==
    IF factor = "1.0" THEN img
    ELSE [img EXCEPT !.ops = Append(@, <<stage, factor>>)]

Keys == {"brightness", "contrast", "saturation", "sharpness"}
Factors == {"0.0", "1.0", "2.0"}

\* image_settings.get(key, 1.0)
Get(image_settings, key) ==
    IF key \in DOMAIN image_settings THEN image_settings[key] ELSE "1.0"

EnhanceOff ==
    /\ e_pc = "off"
    /\ e_in = [mode |-> "L", px |-> <<0>>, ops |-> <<>>]
    /\ e_settings = <<>>
    /\ e_log = <<>>
    /\ e_img = [mode |-> "L", px |-> <<0>>, ops |-> <<>>]

EnhanceInit ==
    /\ e_pc = "start"
    /\ e_in \in Pictures
    /\ e_settings \in UNION { [ks -> Factors] : ks \in SUBSET Keys }
    /\ e_log = <<>>
    /\ e_img = e_in

\* one entry of the log of enhance calls
Stage(name, image_settings, img) ==
    [stage |-> name,
     factor |-> Get(image_settings, name),
     arg |-> img,
     out |-> Enhance(name, Get(image_settings, name), img)]

\* apply_image_enhancement with the contrast stage run before the brightness
\* stage
ApplyImageEnhancementReordered ==
    /\ e_pc = "start"
    /\ UNCHANGED <<svars, ovars, rvars, fvars, pvars>>
    /\ LET img0 == IF e_in.mode \notin {"RGB", "L"} THEN ConvertRGB(e_in) ELSE e_in
           s1 == Stage("contrast", e_settings, img0)
           s2 == Stage("brightness", e_settings, s1.out)
           s3 == Stage("saturation", e_settings, s2.out)
           s4 == Stage("sharpness", e_settings, s3.out)
       IN  /\ e_log' = <<s1, s2, s3, s4>>
           /\ e_img' = s4.out
    /\ e_pc' = "done"
    /\ UNCHANGED <<e_in, e_settings>>

\* apply_image_enhancement: the conversion to RGB of a bitmap that is neither
\* RGB nor L, then the four enhance calls, each on the result of the one
\* before
ApplyImageEnhancement ==
    /\ e_pc = "start"
    /\ UNCHANGED <<svars, ovars, rvars, fvars, pvars>>
    /\ LET img0 == IF e_in.mode \notin {"RGB", "L"} THEN ConvertRGB(e_in) ELSE e_in
           s1 == Stage("brightness", e_settings, img0)
           s2 == Stage("contrast", e_settings, s1.out)
           s3 == Stage("saturation", e_settings, s2.out)
           s4 == Stage("sharpness", e_settings, s3.out)
       IN  /\ e_log' = <<s1, s2, s3, s4>>
           /\ e_img' = s4.out
    /\ e_pc' = "done"
    /\ UNCHANGED <<e_in, e_settings>>

EnhanceNext == ApplyImageEnhancement

(* ------------------------------- claims -------------------------------- *)

\* take_screenshot has returned to its caller (the outside caller, or line
\* 102 of take_screenshot_html, whose next step is th_remove)
TsReturned(i) == (kind[i] = "target" /\ pc[i] = "done") \/ pc[i] = "th_remove"

\* the value take_screenshot returned
TsResult(i) == IF kind[i] = "target" THEN ret[i] ELSE html_image[i]

AllPassed == <<TRUE, TRUE, TRUE, TRUE>>

\* C1: when take_screenshot has returned, whichever way it ended, the .png
\* temp file it created is no longer on disk
C1_TempPngRemoved ==
    \A i \in Invs : TsReturned(i) => \A p \in Names : pngowner[p] # i

\* C2: when take_screenshot_html has returned, whichever way it ended, the
\* .html temp file it created is no longer on disk
C2_TempHtmlRemoved ==
    \A i \in Invs : (kind[i] = "html" /\ pc[i] = "done") => htmlfs[i] = "absent"

\* C3: take_screenshot never raises to its caller, and it returns a bitmap if
\* and only if the four checkpoints (exit code zero, file exists, file not
\* empty, file decodes) all passed in sequence; otherwise it returns None
C3_BitmapIffAllCheckpoints ==
    \A i \in Invs :
        /\ ~raised[i]
        /\ TsReturned(i) =>
              /\ TsResult(i) \in {"None", "Bitmap"}
              /\ TsResult(i) = "Bitmap" <=> checks[i] = AllPassed

\* one invocation returned a bitmap after four passed checkpoints and another
\* returned None after the decode checkpoint failed
C3_Witness ==
    \E i, j \in Invs :
        /\ TsReturned(i) /\ TsResult(i) = "Bitmap" /\ checks[i] = AllPassed
        /\ TsReturned(j) /\ TsResult(j) = "None"
        /\ checks[j] = <<TRUE, TRUE, TRUE, FALSE>>

\* C8: concurrent invocations never hold the same temp file path: the paths
\* of the live invocations of take_screenshot are pairwise distinct
C8_TempPathsDistinct ==
    \A i, j \in Invs :
        (i # j /\ img_file_path[i] # 0 /\ img_file_path[j] # 0)
            => img_file_path[i] # img_file_path[j]

\* C9: one invocation spawns the external process at most once, and after a
\* failed checkpoint the call returns None
C9_SpawnAtMostOnce ==
    \A i \in Invs :
        /\ spawns[i] <= 1
        /\ (TsReturned(i) /\ checks[i] # AllPassed) => TsResult(i) = "None"

\* an invocation whose process exited non-zero has returned None after its
\* single spawn
C9_Witness ==
    \E i \in Invs :
        /\ TsReturned(i) /\ spawns[i] = 1
        /\ checks[i] = <<FALSE>> /\ TsResult(i) = "None"

\* a half turn, written out pixel by pixel
Rot180(b) ==
    [w |-> b.w, h |-> b.h,
     px |-> [c \in Pixels(b.w, b.h) |-> b.px[<<b.w - 1 - c[1], b.h - 1 - c[2]>>]]]

\* calls k and k+1 have the same orientation and opposite inversion flags
Toggled(k) ==
    /\ o_calls[k].orientation = o_calls[k + 1].orientation
    /\ o_calls[k].inverted # o_calls[k + 1].inverted

\* C4 (as claimed): two successive calls with the same orientation and the
\* inversion flag toggled turn the bitmap by 180 degrees in total
C4_ToggleNet180 ==
    \A k \in 1..(Len(o_calls) - 1) :
        Toggled(k) => o_hist[k + 2] = Rot180(o_hist[k])

\* C4 (amended): two successive calls with the same orientation and the
\* inversion flag toggled turn the bitmap by 180 degrees in total when the
\* orientation is horizontal and by 0 degrees (360 mod 360: the original
\* bitmap is back) when it is vertical
C4_ToggleNetRotation ==
    \A k \in 1..(Len(o_calls) - 1) :
        Toggled(k) =>
            o_hist[k + 2] = IF o_calls[k].orientation = "horizontal"
                            THEN Rot180(o_hist[k])
                            ELSE o_hist[k]

\* two vertical calls with the flag toggled were made on a bitmap that a half
\* turn changes
C4_Witness ==
    /\ Len(o_calls) = 2
    /\ Toggled(1)
    /\ o_calls[1].orientation = "vertical"
    /\ o_hist[1] # Rot180(o_hist[1])

\* C10: change_orientation rotates by 0 degrees for (horizontal, not
\* inverted), 180 for (horizontal, inverted), 90 for (vertical, not inverted)
\* and 270 for (vertical, inverted); the first is the identity and the second
\* a half turn
C10_AngleTable ==
    \A k \in 1..Len(o_calls) :
        LET c == o_calls[k]
            before == o_hist[k]
            after == o_hist[k + 1]
        IN  /\ (c.orientation = "horizontal" /\ ~c.inverted)
                  => (c.angle = 0 /\ after = before)
            /\ (c.orientation = "horizontal" /\ c.inverted)
                  => (c.angle = 180 /\ after = Rot180(before))
            /\ (c.orientation = "vertical" /\ ~c.inverted)
                  => (c.angle = 90 /\ after = Rot90(before))
            /\ (c.orientation = "vertical" /\ c.inverted)
                  => (c.angle = 270 /\ after = Rot90(Rot180(before)))

\* each of the four argument pairs has been applied, the last two calls to a
\* bitmap that a half turn changes
C10_Witness ==
    /\ Len(o_calls) = 2
    /\ o_calls[1].orientation = "vertical" /\ o_calls[1].inverted
    /\ o_calls[2].orientation = "horizontal" /\ o_calls[2].inverted
    /\ o_hist[1] # Rot180(o_hist[1])
    /\ o_hist[2] # Rot180(o_hist[2])

\* resize_image took the vertical-crop branch (the source ratio is not
\* greater than the target ratio)
VerticalBranch ==
    ~RatioGreater(r_size[1], r_size[2], r_desired[1], r_desired[2])

\* C5: resize_image returns a bitmap of exactly the desired size, and the
\* crop box it computes has positive width and positive height
C5_ExactSizePositiveCrop ==
    r_pc = "done" =>
        /\ r_out = r_desired
        /\ r_crop[3] - r_crop[1] > 0
        /\ r_crop[4] - r_crop[2] > 0

\* C6 (as claimed): in the vertical-crop branch the crop box is the same
\* whether or not keep-width is set
C6_KeepWidthNoEffect ==
    (r_pc = "done" /\ VerticalBranch) =>
        LET c == ResizeCrop(r_size[1], r_size[2], r_desired[1], r_desired[2], ~r_keep)
        IN  r_crop = <<c.x_offset, c.y_offset,
                       c.x_offset + c.new_width, c.y_offset + c.new_height>>

\* C6 (amended): in the vertical-crop branch keep-width changes neither the
\* size of the crop (full width, the same reduced height) nor its horizontal
\* position, but it sets the vertical offset: 0 with keep-width,
\* floor((imgH - newH) / 2) without
C6_KeepWidthVerticalOffset ==
    (r_pc = "done" /\ VerticalBranch) =>
        LET c == ResizeCrop(r_size[1], r_size[2], r_desired[1], r_desired[2], ~r_keep)
            newH == r_crop[4] - r_crop[2]
        IN  /\ r_crop[1] = 0 /\ r_crop[3] = r_size[1]
            /\ newH = c.new_height
            /\ r_crop[2] = IF r_keep THEN 0 ELSE (r_size[2] - newH) \div 2

\* a vertical crop with keep-width set that a centred crop would have placed
\* lower
C6_Witness ==
    /\ r_pc = "done" /\ VerticalBranch /\ r_keep
    /\ r_size[2] - (r_crop[4] - r_crop[2]) >= 2

\* C7: get_image never raises: for every status and body it returns a bitmap
\* exactly when the status is in [200,300) or 304 and the body decodes, and
\* None otherwise
C7_NeverRaises ==
    (f_pc = "done" /\ f_status # 0) =>
        /\ ~f_raised
        /\ f_img = "Bitmap" <=>
              /\ (200 <= f_status /\ f_status < 300) \/ f_status = 304
              /\ f_body = "image"

\* resize_image took the horizontal-crop branch (the source ratio is greater
\* than the target ratio)
HorizontalBranch ==
    RatioGreater(r_size[1], r_size[2], r_desired[1], r_desired[2])

\* C11: when imgW / imgH > w / h the crop keeps the full height, its width is
\* newW = floor(imgH * w / h), and its x offset is floor((imgW - newW) / 2)
\* without keep-width and 0 with it; a 1920 x 1080 source and an 800 x 480
\* target without keep-width give newW = 1800 and the columns [60, 1860)
C11_HorizontalCropFloor ==
    (r_pc = "done" /\ HorizontalBranch) =>
        LET newW == (r_size[2] * r_desired[1]) \div r_desired[2]
            xOffset == IF r_keep THEN 0 ELSE (r_size[1] - newW) \div 2
        IN  /\ r_crop = <<xOffset, 0, xOffset + newW, r_size[2]>>
            /\ (r_size = <<1920, 1080>> /\ r_desired = <<800, 480>> /\ ~r_keep)
                  => r_crop = <<60, 0, 1860, 1080>>

\* C15: when imgW * h = imgH * w the crop box is the whole source, offset
\* (0, 0) and size (imgW, imgH), with or without keep-width
C15_SameRatioWholeSource ==
    (r_pc = "done" /\ r_size[1] * r_desired[2] = r_size[2] * r_desired[1]) =>
        r_crop = <<0, 0, r_size[1], r_size[2]>>

\* the crop box lies inside the source bitmap
CropInside ==
    /\ 0 <= r_crop[1] /\ 0 <= r_crop[2]
    /\ r_crop[3] <= r_size[1] /\ r_crop[4] <= r_size[2]

\* C19 (as claimed): the crop box lies inside the source, and exactly one of
\* its width and height is smaller than the source's
C19_CropInsideExactlyOneReduced ==
    r_pc = "done" =>
        /\ CropInside
        /\ (r_crop[3] - r_crop[1] < r_size[1]) # (r_crop[4] - r_crop[2] < r_size[2])

\* C19 (amended): the crop box lies inside the source, and at most one of its
\* width and height is smaller than the source's: the other is the full
\* source extent, and for equal ratios neither is reduced
C19_CropInsideAtMostOneReduced ==
    r_pc = "done" =>
        /\ CropInside
        /\ \/ (r_crop[1] = 0 /\ r_crop[3] = r_size[1])
           \/ (r_crop[2] = 0 /\ r_crop[4] = r_size[2])

\* a centred crop that is narrower than the source and keeps its full height
C19_Witness ==
    /\ r_pc = "done" /\ HorizontalBranch /\ ~r_keep
    /\ r_crop[1] > 0 /\ r_crop[3] < r_size[1]
    /\ r_crop[2] = 0 /\ r_crop[4] = r_size[2]

\* C12: for every source bitmap and every target box pad_image_blur returns
\* a bitmap of exactly the target size, with the contained image pasted at
\* (floor((targetW - scaledW) / 2), floor((targetH - scaledH) / 2)): an
\* offset that is non-negative in both axes, leaves the whole scaled image
\* inside the frame and centres it to within one pixel
C12_PadExactSizeCentred ==
    p_pc = "done" =>
        LET x == p_paste[1]
            y == p_paste[2]
            scaledW == p_img_size[1]
            scaledH == p_img_size[2]
        IN  /\ ~p_raised
            /\ p_out = p_dims
            /\ x = (p_dims[1] - scaledW) \div 2
            /\ y = (p_dims[2] - scaledH) \div 2
            /\ x >= 0 /\ y >= 0
            /\ scaledW >= 1 /\ scaledH >= 1
            /\ x + scaledW <= p_dims[1] /\ y + scaledH <= p_dims[2]
            /\ (p_dims[1] - scaledW - x) - x \in {0, 1}
            /\ (p_dims[2] - scaledH - y) - y \in {0, 1}

\* the four enhance calls in the order of the code, each with its configured
\* factor or 1.0, each applied to the result of the call before
FourStagesInOrder ==
    /\ Len(e_log) = 4
    /\ e_log[1].stage = "brightness" /\ e_log[2].stage = "contrast"
    /\ e_log[3].stage = "saturation" /\ e_log[4].stage = "sharpness"
    /\ \A k \in 1..4 :
          /\ e_log[k].factor = Get(e_settings, e_log[k].stage)
          /\ e_log[k].out = Enhance(e_log[k].stage, e_log[k].factor, e_log[k].arg)
    /\ \A k \in 2..4 : e_log[k].arg = e_log[k - 1].out
    /\ e_img = e_log[4].out

AllFactorsOne == \A k \in Keys : Get(e_settings, k) = "1.0"

\* C13 (as claimed): apply_image_enhancement runs exactly four stages in the
\* order brightness, contrast, saturation, sharpness, each on the output of
\* the stage before with its configured factor or 1.0; with all four factors
\* at 1.0 the output pixel content equals the input's
C13_FourStagesIdentityAtOne ==
    e_pc = "done" =>
        /\ FourStagesInOrder
        /\ e_log[1].arg = e_in
        /\ AllFactorsOne => (e_img.mode = e_in.mode /\ e_img.px = e_in.px)

\* C13 (amended): the four stages run in that order on the input converted to
\* RGB when its mode is neither RGB nor L; with all four factors at 1.0 the
\* output equals the input for an RGB or L input and the input's RGB
\* conversion (alpha dropped) otherwise
C13_FourStagesIdentityAfterConvert ==
    e_pc = "done" =>
        LET img0 == IF e_in.mode \in {"RGB", "L"} THEN e_in ELSE ConvertRGB(e_in)
        IN  /\ FourStagesInOrder
            /\ e_log[1].arg = img0
            /\ AllFactorsOne => e_img = img0

\* brightness and contrast were both configured away from 1.0 and the other
\* two left to their default, on a bitmap with an alpha channel
C13_Witness ==
    /\ e_pc = "done"
    /\ e_in.mode = "RGBA"
    /\ DOMAIN e_settings = {"brightness", "contrast"}
    /\ e_settings["brightness"] = "2.0" /\ e_settings["contrast"] = "0.0"
    /\ e_img.ops = <<<<"brightness", "2.0">>, <<"contrast", "0.0">>>>

\* the positions inside take_screenshot
TsPcs == {"ts_create", "ts_spawn", "ts_running", "ts_exists", "ts_size",
          "ts_open", "ts_remove", "ts_except"}

C17_UntouchedEndsAtEmptyCheck ==
    \A i \in DOMAIN pc :
        /\ pc[i] \in {"ts_spawn", "ts_running"} => img_file_path[i] # 0
        /\ (TsReturned(i) /\ untouched[i]) => checks[i] = <<TRUE, TRUE, FALSE>>
        /\ (TsReturned(i) /\ checks[i] = <<TRUE, FALSE>>) => ~untouched[i]

\* C18: in take_screenshot_html the HTML temp file is completely written and
\* closed before the external process is spawned, it exists for the whole
\* time the process runs, and it is deleted only after take_screenshot has
\* returned
C18_HtmlFileLiveDuringRender ==
    \A i \in Invs :
        /\ (kind[i] = "html" /\ pc[i] \in TsPcs) =>
              (htmlfs[i] = "html" /\ html_file_path[i])
        /\ (kind[i] = "html" /\ htmlfs[i] = "absent") =>
              pc[i] \in {"idle", "th_create", "th_except", "done"}

\* the process of a take_screenshot_html invocation is running on the
\* complete HTML file
C18_Witness ==
    \E i \in Invs :
        kind[i] = "html" /\ pc[i] = "ts_running" /\ htmlfs[i] = "html"

(* --------------------------- specifications ---------------------------- *)

\* concurrent invocations of take_screenshot_html and take_screenshot
Init == ShotInit /\ OrientOff /\ ResizeOff /\ FetchOff /\ PadOff /\ EnhanceOff
Next == ShotNext
Spec == Init /\ [][Next]_vars

\* successive calls of change_orientation on every small bitmap
InitOrient == OrientInit /\ ShotInit /\ ResizeOff /\ FetchOff /\ PadOff /\ EnhanceOff
NextOrient == OrientNext
SpecOrient == InitOrient /\ [][NextOrient]_vars

\* resize_image on every source size, target size and keep-width setting
InitResize == ResizeInit /\ ShotInit /\ OrientOff /\ FetchOff /\ PadOff /\ EnhanceOff
NextResize == ResizeNext
SpecResize == InitResize /\ [][NextResize]_vars

\* get_image on every status and body
InitFetch == FetchInit /\ ShotInit /\ OrientOff /\ ResizeOff /\ PadOff /\ EnhanceOff
NextFetch == FetchNext
SpecFetch == InitFetch /\ [][NextFetch]_vars

\* three concurrent invocations of take_screenshot
InitReuse == ReuseInit /\ OrientOff /\ ResizeOff /\ FetchOff /\ PadOff /\ EnhanceOff
NextReuse == ReuseNext
SpecReuse == InitReuse /\ [][NextReuse]_vars

\* pad_image_blur on every small source size and target box
InitPad == PadInit /\ ShotInit /\ OrientOff /\ ResizeOff /\ FetchOff /\ EnhanceOff
NextPad == PadNext
SpecPad == InitPad /\ [][NextPad]_vars

\* apply_image_enhancement on every one-pixel bitmap and every settings map
InitEnhance == EnhanceInit /\ ShotInit /\ OrientOff /\ ResizeOff /\ FetchOff /\ PadOff
NextEnhance == EnhanceNext
SpecEnhance == InitEnhance /\ [][NextEnhance]_vars

====
